---- MODULE Spec2Model ----
(***************************************************************************)
(* Model of the video scene service: src/app.py (the Flask handlers        *)
(* analyze_video and cleanup_request) and src/utilis.py (run_pyscenedetect, *)
(* extract_frames, time_to_seconds, cleanup_old_files).                    *)
(*                                                                         *)
(* Time is kept in integer milliseconds (timecodes have millisecond        *)
(* resolution); the wall clock and directory change times are in seconds.  *)
(* The code computes with doubles: where the rounding of end_sec -         *)
(* start_sec decides a comparison, the model carries its direction (see    *)
(* FloatErr). A planned timestamp start + i * duration / (k + 1) is kept   *)
(* exactly, as a fraction [num, den] of milliseconds.                      *)
(***************************************************************************)
EXTENDS Integers, Sequences, FiniteSets, TLC

\* ------------------------------------------------------------------ bounds

\* Largest num_frames the extraction harness passes to extract_frames.
MaxNumFrames == 4

\* The wall clock advances at most this many times (by one max age each time).
MaxTicks == 2

\* Identifiers uuid4 can hand out to analyze requests.
NumUuids == 2

\* --------------------------------------------------------------- constants

\* analyze_video calls cleanup_old_files(UPLOAD_DIR, max_age_hours=1).
MaxAgeHours == 1

\* cutoff_time = current_time - (max_age_hours * 3600)
SecondsPerHour == 3600

\* analyze_video asks extract_frames for 3 frames per scene.
FramesPerScene == 3

\* The concurrent analyze requests (worker threads of the server).
Reqs == {"A", "B"}

VARIABLES
    clock,      \* time.time(), in seconds
    fs,         \* UPLOAD_DIR: entry name -> [isdir, ctime, files, deletable]
    issued,     \* identifiers uuid4 has returned
    pc,         \* per request: position in analyze_video
    req_id,     \* per request: req_id ("None" before allocation)
    todo,       \* per request: os.listdir entries the sweep has not visited yet
    cutoff,     \* per request: cutoff_time of its sweep
    video,      \* per request: the uploaded video as the detector sees it
    scenes,     \* per request: list returned by run_pyscenedetect
    extracted,  \* per request: the list extract_frames returned for each scene so far
    result,     \* per request: result list of analyze_video
    response,   \* per request: the response returned ("None" while in flight)
    delResp,    \* response of the latest DELETE /cleanup/<req_id>
    efArgs,     \* extraction harness: arguments of one extract_frames call
    efRet,      \* extraction harness: what the call returned
    hDone,      \* sweep harness: cutoff_time of each cleanup_old_files call that returned
    names       \* naming harness: an upload's file name and two frames' names

vars == <<clock, fs, issued, pc, req_id, todo, cutoff, video, scenes,
          extracted, result, response, delResp, efArgs, efRet, hDone, names>>

\* ---------------------------------------------------------------- timecodes

\* FrameTimecode.get_timecode(): milliseconds to HH:MM:SS.mmm, kept as the three
\* colon-separated fields; the seconds field SS.mmm is held in milliseconds.
get_timecode(ms) ==
    [hours   |-> ms \div 3600000,
     minutes |-> (ms % 3600000) \div 60000,
     seconds |-> ms % 60000]

\* time_to_seconds: hours * 3600 + minutes * 60 + seconds, here in milliseconds.
time_to_seconds(tc) ==
    tc.hours * 3600000 + tc.minutes * 60000 + tc.seconds

\* ------------------------------------------------------------ extract_frames

\* One subprocess.run of ffmpeg: it times out (TimeoutExpired is raised), or it
\* exits with a return code and has or has not left the output file on disk.
FfmpegRun ==
    [kind : {"timeout"}] \cup
    [kind : {"exit"}, returncode : {0, 1}, exists : BOOLEAN]

\* f"scene_{scene_id:02d}_{idx:02d}.jpg"
Pad2(n) == IF n < 10 THEN "0" \o ToString(n) ELSE ToString(n)

\* Variant of FrameName that joins the two numbers without the underscore.
FrameNameNoSeparator(scene_id, idx) ==
    "scene_" \o Pad2(scene_id) \o Pad2(idx) \o ".jpg"

FrameName(scene_id, idx) ==
    "scene_" \o Pad2(scene_id) \o "_" \o Pad2(idx) \o ".jpg"

\* Line 81, duration = end_sec - start_sec, is a subtraction of doubles, and
\* its result can fall just below or just above the span's length. Of the
\* spans (start, end in ms) used here whose length is on a threshold of the
\* sampling policy (0.1 s, or a multiple of 0.5 s), these are the ones for which
\* time_to_seconds(end) - time_to_seconds(start) is below the length, e.g.
\* 1.15 - 0.15 = 0.9999999999999999, 60.05 - 59.95 = 0.09999999999999432,
DurationRoundsBelow == {<<150, 1150>>, <<59950, 60050>>, <<3599900, 3600000>>}

\* and above it: 0.4 - 0.3 = 0.10000000000000003.
DurationRoundsAbove == {<<300, 400>>}

\* The direction in which the computed duration misses the span's length.
FloatErr(start_sec, end_sec) ==
    IF <<start_sec, end_sec>> \in DurationRoundsBelow THEN -1
    ELSE IF <<start_sec, end_sec>> \in DurationRoundsAbove THEN 1
    ELSE 0

\* Line 83: duration <= 0.1, for a computed duration of length ms that misses
\* it in direction err.
TooShort(duration, err) ==
    duration < 100 \/ (duration = 100 /\ err <= 0)

\* int(duration * 2): doubling is exact, so the floor is that of the length
\* unless the computed duration is just below a multiple of 0.5 s.
IntTwice(duration, err) ==
    IF (2 * duration) % 1000 = 0 /\ err < 0
    THEN (2 * duration) \div 1000 - 1
    ELSE (2 * duration) \div 1000

\* Lines 88-92: the number of frames for a scene that is not skipped.
ActualFrames(duration, err, num_frames) ==
    IF duration < num_frames * 500 \/ (duration = num_frames * 500 /\ err < 0)
    THEN (IF IntTwice(duration, err) > 1 THEN IntTwice(duration, err) ELSE 1)
    ELSE num_frames

\* Variant of Timestamps that numbers the intervals from 0 (start_sec +
\* i * interval for i in range(actual_frames)): the first timestamp is the cut.
TimestampsFromStart(start_sec, duration, actual_frames) ==
    [i \in 1..actual_frames |->
        [num |-> start_sec * (actual_frames + 1) + (i - 1) * duration,
         den |-> actual_frames + 1]]

\* Lines 94-95: interval = duration / (actual_frames + 1) and
\* timestamps[i] = start_sec + i * interval (1-indexed), as exact fractions.
Timestamps(start_sec, duration, actual_frames) ==
    [i \in 1..actual_frames |->
        [num |-> start_sec * (actual_frames + 1) + i * duration,
         den |-> actual_frames + 1]]

\* Lines 79-95: the plan. A scene of at most 0.1 s is skipped (no timestamps).
PlanTimestamps(start, end, num_frames) ==
    LET start_sec == time_to_seconds(start)
        end_sec   == time_to_seconds(end)
        duration  == end_sec - start_sec
        err       == FloatErr(start_sec, end_sec)
    IN  IF TooShort(duration, err)
        THEN << >>
        ELSE Timestamps(start_sec, duration,
                        ActualFrames(duration, err, num_frames))

\* Lines 97-120: the loop over the timestamps from position idx on. A run that
\* times out raises out of the loop; a run counts when it returned 0 and the
\* output file exists.
RECURSIVE FrameLoop(_, _, _, _, _)
FrameLoop(timestamps, runs, scene_id, idx, frames) ==
    IF idx > Len(timestamps)
    THEN [raised |-> FALSE, frames |-> frames, ran |-> idx - 1]
    ELSE IF runs[idx].kind = "timeout"
    THEN [raised |-> TRUE, frames |-> frames, ran |-> idx]
    ELSE IF runs[idx].returncode = 0 /\ runs[idx].exists
    THEN FrameLoop(timestamps, runs, scene_id, idx + 1,
                   Append(frames, FrameName(scene_id, idx)))
    ELSE FrameLoop(timestamps, runs, scene_id, idx + 1, frames)

\* extract_frames: the list it returns, with the plan it made and the number of
\* ffmpeg runs it issued. Lines 125-127: TimeoutExpired returns [].
extract_frames(start, end, num_frames, scene_id, runs) ==
    LET timestamps == PlanTimestamps(start, end, num_frames)
        loop       == FrameLoop(timestamps, runs, scene_id, 1, << >>)
    IN  [timestamps |-> timestamps,
         ran        |-> loop.ran,
         frames     |-> IF loop.raised THEN << >> ELSE loop.frames]

\* The files the ffmpeg runs of one extract_frames call left in output_dir.
FilesWritten(scene_id, runs, ran) ==
    {FrameName(scene_id, i) : i \in {j \in 1..ran :
        runs[j].kind = "exit" /\ runs[j].exists}}

\* ------------------------------------------------------------------ storage

\* str(uuid.uuid4()): the names uuid.UUID() accepts.
UUIDs == {"uuid-" \o ToString(i) : i \in 1..NumUuids}

\* A workspace left in UPLOAD_DIR by an earlier run of the service.
OldUuid == "uuid-0"

\* uuid.UUID(name) does not raise ValueError.
IsUUID(name) == name \in UUIDs \cup {OldUuid}

\* What UPLOAD_DIR holds when the service starts (os.makedirs(..., exist_ok=True)
\* keeps what is there), entries left in the shared temp directory: a file and
\* a directory that are no workspaces, and an old workspace that this process
\* may not remove.
LeftOver ==
    [n \in {"health_test", "lost+found", OldUuid} |->
        [isdir     |-> n # "health_test",
         ctime     |-> 0,
         files     |-> {},
         deletable |-> n # OldUuid]]

\* os.listdir(base_dir): the entries present, in the directory's order.
ListOrder ==
    <<"health_test", "lost+found", OldUuid>> \o
    [i \in 1..NumUuids |-> "uuid-" \o ToString(i)]

Listdir(dir) == SelectSeq(ListOrder, LAMBDA n : n \in DOMAIN dir)

\* uuid.uuid4(): an identifier never returned before. Identifiers are
\* interchangeable; the model hands them out in order.
Uuid4(given) == "uuid-" \o ToString(Cardinality(given) + 1)

\* The directory without entry name.
Without(dir, name) == [n \in DOMAIN dir \ {name} |-> dir[n]]

\* Variant of Rmtree that empties a directory that holds files and removes
\* only a directory that is already empty.
RmtreeContentsFirst(dir, name) ==
    IF name \in DOMAIN dir /\ dir[name].isdir /\ dir[name].deletable
    THEN (IF dir[name].files # {}
          THEN [dir EXCEPT ![name].files = {}]
          ELSE Without(dir, name))
    ELSE dir

\* shutil.rmtree(path, ignore_errors=True): removes the directory tree, and leaves
\* the entry in place when it is no directory or cannot be removed.
Rmtree(dir, name) ==
    IF name \in DOMAIN dir /\ dir[name].isdir /\ dir[name].deletable
    THEN Without(dir, name)
    ELSE dir

\* os.makedirs(req_folder, exist_ok=True) at time now.
Makedirs(dir, name, now) ==
    IF name \in DOMAIN dir
    THEN dir
    ELSE [n \in DOMAIN dir \cup {name} |->
            IF n = name
            THEN [isdir |-> TRUE, ctime |-> now, files |-> {}, deletable |-> TRUE]
            ELSE dir[n]]

\* Files created inside directory name at time now: creating an entry changes the
\* directory's change time. Nothing is written when the directory is gone.
WriteFiles(dir, name, new, now) ==
    IF name \in DOMAIN dir /\ dir[name].isdir /\ new # {}
    THEN [dir EXCEPT ![name].files = @ \cup new, ![name].ctime = now]
    ELSE dir

\* max_age_hours * 3600
MaxAgeSeconds == MaxAgeHours * SecondsPerHour

\* cleanup_old_files, lines 242-246: the listed item is a directory and its
\* name is a UUID.
IsWorkspace(dir, item) ==
    /\ item \in DOMAIN dir
    /\ dir[item].isdir
    /\ IsUUID(item)

\* Line 249: os.path.getctime(item_path) < cutoff_time, for an entry that exists.
TooOld(dir, item, cutoff_time) == dir[item].ctime < cutoff_time

\* Variant of AfterGetctimeError in which the exception leaves the loop and is
\* caught by the outer handler (lines 263-264): the sweep ends there.
AfterGetctimeErrorAbort(rest) == << >>

\* Lines 257-258: an exception raised in the loop body that is no ValueError is
\* caught inside the loop ("except Exception": a warning is logged), and the
\* loop goes on with the items after the current one.
AfterGetctimeError(rest) == Tail(rest)

\* --------------------------------------------------------- run_pyscenedetect

\* The uploaded videos: total duration and the detector's scene list, in ms.
\* readable = FALSE: the detector raises (corrupt or unreadable video).
Videos ==
    { [readable |-> FALSE, duration |-> 0,      scene_list |-> << >>],
      [readable |-> TRUE,  duration |-> 0,      scene_list |-> << >>],
      [readable |-> TRUE,  duration |-> 400,    scene_list |-> << >>],
      [readable |-> TRUE,  duration |-> 1000,
       scene_list |-> << <<600, 1000>>, <<0, 50>>, <<50, 600>> >>] }

NoVideo == [readable |-> FALSE, duration |-> 0, scene_list |-> << >>]

\* scene_list.sort(key=lambda s: s[0].get_seconds()): insertion by start time.
RECURSIVE SortByStart(_)
SortByStart(list) ==
    IF Len(list) <= 1
    THEN list
    ELSE LET rest == SortByStart(Tail(list))
             h    == Head(list)
             before == SelectSeq(rest, LAMBDA s : s[1] < h[1])
             after  == SelectSeq(rest, LAMBDA s : s[1] >= h[1])
         IN  before \o <<h>> \o after

\* Variant of WithFallback that returns the detector's list as it is.
FallbackNone(v) == v.scene_list

\* Lines 37-42: with no scene found, the whole video is the one scene, from
\* the base timecode (0) to the duration.
WithFallback(v) ==
    IF v.scene_list = << >> THEN << <<0, v.duration>> >> ELSE v.scene_list

\* Lines 44-56: the sorted scenes as dictionaries of timecodes.
run_pyscenedetect(v) ==
    LET scene_list == SortByStart(WithFallback(v))
    IN  [i \in 1..Len(scene_list) |->
            [start    |-> get_timecode(scene_list[i][1]),
             end      |-> get_timecode(scene_list[i][2]),
             duration |-> scene_list[i][2] - scene_list[i][1]]]

\* ---------------------------------------------------------------- file names

\* Characters of a str, as one-character strings.
IsIn(c, chars) == \E i \in 1..Len(chars) : SubSeq(chars, i, i) = c

UpperCase == "ABCDEFGHIJKLMNOPQRSTUVWXYZ"
LowerCase == "abcdefghijklmnopqrstuvwxyz"
Digits    == "0123456789"

\* str.lower(), on ASCII.
LowerChar(c) ==
    IF IsIn(c, UpperCase)
    THEN LET i == CHOOSE j \in 1..Len(UpperCase) : SubSeq(UpperCase, j, j) = c
         IN  SubSeq(LowerCase, i, i)
    ELSE c

RECURSIVE Lower(_)
Lower(str) ==
    IF Len(str) = 0 THEN "" ELSE LowerChar(SubSeq(str, 1, 1)) \o Lower(Tail(str))

\* str.endswith(suffix)
EndsWith(str, suffix) ==
    /\ Len(str) >= Len(suffix)
    /\ SubSeq(str, Len(str) - Len(suffix) + 1, Len(str)) = suffix

\* Line 31.
ALLOWED_EXTENSIONS == {".mp4", ".avi", ".mov", ".mkv", ".webm"}

\* Lines 33-35: any(filename.lower().endswith(ext) for ext in ALLOWED_EXTENSIONS)
allowed_file(filename) ==
    \E ext \in ALLOWED_EXTENSIONS : EndsWith(Lower(filename), ext)

\* werkzeug's secure_filename on an ASCII name, step by step: path separators
\* become spaces and "_".join(filename.split()) joins the words,
RECURSIVE JoinWords(_, _, _)
JoinWords(str, started, gap) ==
    IF Len(str) = 0 THEN ""
    ELSE LET c == SubSeq(str, 1, 1) IN
         IF c \in {" ", "/"}
         THEN JoinWords(Tail(str), started, started)
         ELSE (IF gap THEN "_" ELSE "") \o c \o JoinWords(Tail(str), TRUE, FALSE)

\* every character outside [A-Za-z0-9_.-] is removed,
RECURSIVE KeepSafe(_)
KeepSafe(str) ==
    IF Len(str) = 0 THEN ""
    ELSE LET c == SubSeq(str, 1, 1) IN
         (IF IsIn(c, UpperCase \o LowerCase \o Digits \o "_.-") THEN c ELSE "")
             \o KeepSafe(Tail(str))

\* and .strip("._") takes dots and underscores off both ends.
RECURSIVE StripLeft(_)
StripLeft(str) ==
    IF Len(str) > 0 /\ SubSeq(str, 1, 1) \in {".", "_"}
    THEN StripLeft(Tail(str))
    ELSE str

RECURSIVE StripRight(_)
StripRight(str) ==
    IF Len(str) > 0 /\ SubSeq(str, Len(str), Len(str)) \in {".", "_"}
    THEN StripRight(SubSeq(str, 1, Len(str) - 1))
    ELSE str

\* Line 52: filename = secure_filename(video.filename)
secure_filename(filename) ==
    StripRight(StripLeft(KeepSafe(JoinWords(filename, FALSE, FALSE))))

\* Lines 46-64: the name under which the upload is saved in the request's
\* folder, "None" when the request is refused (400) before a folder is made.
SavedName(filename) ==
    IF filename = "" \/ ~allowed_file(secure_filename(filename))
    THEN "None"
    ELSE secure_filename(filename)

\* ------------------------------------------------------------- analyze_video

\* jsonify({"error": text}), status
ErrorResponse(text, status) ==
    [status |-> status, key |-> "error", text |-> text,
     request_id |-> "None", scenes |-> << >>]

\* jsonify({"message": text}), status
MessageResponse(text, status) ==
    [status |-> status, key |-> "message", text |-> text,
     request_id |-> "None", scenes |-> << >>]

\* Lines 101-105: jsonify({"request_id", "total_scenes", "scenes"}), status 200.
SuccessResponse(id, res) ==
    [status |-> 200, key |-> "scenes", text |-> "",
     request_id |-> id, scenes |-> res]

NoResponse == [status |-> 0, key |-> "None", text |-> "",
               request_id |-> "None", scenes |-> << >>]

\* Lines 107-116, the except branch: remove the request's folder if it exists.
ErrorCleanup(dir, id) ==
    IF id \in DOMAIN dir THEN Rmtree(dir, id) ELSE dir

Finish(r, resp) ==
    /\ pc' = [pc EXCEPT ![r] = "done"]
    /\ response' = [response EXCEPT ![r] = resp]

\* Lines 42-56: a request that fails validation is answered 400 before any
\* folder is made.
AnalyzeReject(r) ==
    /\ pc[r] = "idle"
    /\ Finish(r, ErrorResponse("Invalid upload", 400))
    /\ UNCHANGED <<names, clock, fs, issued, req_id, todo, cutoff, video, scenes,
                   extracted, result, delResp, efArgs, efRet, hDone>>

\* Lines 58-70: a fresh identifier, its folder, and the upload saved into it.
\* save = "ok": the file is there and not empty; "empty": it is missing or
\* empty (500, line 70); "raise": video.save raises (the except branch).
AnalyzeStart(r) ==
    /\ pc[r] = "idle"
    /\ Cardinality(issued) < NumUuids
    /\ \E save \in {"ok", "empty", "raise"} :
        LET id   == Uuid4(issued)
            made == Makedirs(fs, id, clock)
        IN
        /\ issued' = issued \cup {id}
        /\ req_id' = [req_id EXCEPT ![r] = id]
        /\ CASE save = "ok" ->
                  /\ fs' = WriteFiles(made, id, {"video.mp4"}, clock)
                  /\ pc' = [pc EXCEPT ![r] = "cleanup"]
                  /\ UNCHANGED response
             [] save = "empty" ->
                  /\ fs' = made
                  /\ Finish(r, ErrorResponse("Failed to save video file", 500))
             [] save = "raise" ->
                  /\ fs' = ErrorCleanup(made, id)
                  /\ Finish(r, ErrorResponse("Internal server error", 500))
    /\ UNCHANGED <<names, clock, todo, cutoff, video, scenes, extracted, result,
                   delResp, efArgs, efRet, hDone>>

\* Line 73 and cleanup_old_files lines 232-239: the cutoff and the listing.
\* UPLOAD_DIR exists for as long as the process runs.
SweepBegin(r) ==
    /\ pc[r] = "cleanup"
    /\ cutoff' = [cutoff EXCEPT ![r] = clock - MaxAgeSeconds]
    /\ todo' = [todo EXCEPT ![r] = Listdir(fs)]
    /\ pc' = [pc EXCEPT ![r] = "sweeping"]
    /\ UNCHANGED <<names, clock, fs, issued, req_id, video, scenes, extracted, result,
                   response, delResp, efArgs, efRet, hDone>>

\* The positions of a request inside cleanup_old_files: at the head of the
\* loop, before os.path.getctime (line 249) and before shutil.rmtree (line 250).
\* The item of the current iteration is the head of todo.
SweepPcs == {"sweeping", "sweep_getctime", "sweep_rmtree"}

\* cleanup_old_files lines 239-246 for the next listed item: os.path.isdir,
\* then uuid.UUID(item); "except ValueError: continue" goes to the next item.
SweepItem(r) ==
    /\ pc[r] = "sweeping"
    /\ todo[r] # << >>
    /\ IF IsWorkspace(fs, Head(todo[r]))
       THEN /\ pc' = [pc EXCEPT ![r] = "sweep_getctime"]
            /\ UNCHANGED todo
       ELSE /\ todo' = [todo EXCEPT ![r] = Tail(@)]
            /\ UNCHANGED pc
    /\ UNCHANGED <<names, clock, fs, issued, req_id, cutoff, video, scenes, extracted,
                   result, response, delResp, efArgs, efRet, hDone>>

\* Line 249: os.path.getctime(item_path) raises OSError when the entry is gone
\* by now; the exception is handled as AfterGetctimeError says. Otherwise the
\* age is compared with the cutoff.
SweepAge(r) ==
    /\ pc[r] = "sweep_getctime"
    /\ LET item == Head(todo[r]) IN
        IF item \notin DOMAIN fs
        THEN /\ todo' = [todo EXCEPT ![r] = AfterGetctimeError(@)]
             /\ pc' = [pc EXCEPT ![r] = "sweeping"]
        ELSE IF TooOld(fs, item, cutoff[r])
        THEN /\ pc' = [pc EXCEPT ![r] = "sweep_rmtree"]
             /\ UNCHANGED todo
        ELSE /\ todo' = [todo EXCEPT ![r] = Tail(@)]
             /\ pc' = [pc EXCEPT ![r] = "sweeping"]
    /\ UNCHANGED <<names, clock, fs, issued, req_id, cutoff, video, scenes, extracted,
                   result, response, delResp, efArgs, efRet, hDone>>

\* Lines 250-252: shutil.rmtree(item_path, ignore_errors=True), and on to the
\* next item.
SweepRemove(r) ==
    /\ pc[r] = "sweep_rmtree"
    /\ fs' = Rmtree(fs, Head(todo[r]))
    /\ todo' = [todo EXCEPT ![r] = Tail(@)]
    /\ pc' = [pc EXCEPT ![r] = "sweeping"]
    /\ UNCHANGED <<names, clock, issued, req_id, cutoff, video, scenes, extracted,
                   result, response, delResp, efArgs, efRet, hDone>>

\* Lines 75-78, once the sweep has returned (its locals are gone): scene
\* detection on the upload.
Detect(r) ==
    /\ pc[r] = "sweeping"
    /\ todo[r] = << >>
    /\ cutoff' = [cutoff EXCEPT ![r] = 0]
    /\ \E v \in Videos :
        /\ video' = [video EXCEPT ![r] = v]
        /\ IF ~v.readable
           THEN /\ fs' = ErrorCleanup(fs, req_id[r])
                /\ Finish(r, ErrorResponse("Internal server error", 500))
                /\ UNCHANGED scenes
           ELSE /\ scenes' = [scenes EXCEPT ![r] = run_pyscenedetect(v)]
                /\ fs' = fs
                /\ IF scenes'[r] = << >>
                   THEN Finish(r, ErrorResponse("No scenes detected in video", 400))
                   ELSE /\ pc' = [pc EXCEPT ![r] = "scenes"]
                        /\ UNCHANGED response
    /\ UNCHANGED <<names, clock, issued, req_id, todo, extracted, result,
                   delResp, efArgs, efRet, hDone>>

\* Variant of KeepScene that numbers the scenes it keeps: scene_id is the
\* position in result.
KeepSceneRenumbered(res, scene_id, scene, id, frames) ==
    IF frames # << >>
    THEN Append(res, [scene_id |-> Len(res) + 1,
                      start    |-> scene.start,
                      end      |-> scene.end,
                      duration |-> scene.duration,
                      frames   |-> [i \in 1..Len(frames) |-> <<id, frames[i]>>]])
    ELSE res

\* Variant of KeepScene without the "if frames" test.
KeepEvery(res, scene_id, scene, id, frames) ==
    Append(res, [scene_id |-> scene_id,
                 start    |-> scene.start,
                 end      |-> scene.end,
                 duration |-> scene.duration,
                 frames   |-> [i \in 1..Len(frames) |-> <<id, frames[i]>>]])

\* Lines 85-92: a scene is added to result only when frames is not empty; a
\* frame is listed as /static/<req_id>/<file>, kept as the pair.
KeepScene(res, scene_id, scene, id, frames) ==
    IF frames # << >>
    THEN Append(res, [scene_id |-> scene_id,
                      start    |-> scene.start,
                      end      |-> scene.end,
                      duration |-> scene.duration,
                      frames   |-> [i \in 1..Len(frames) |-> <<id, frames[i]>>]])
    ELSE res

\* The ffmpeg runs of a request: a run that fails leaves no file behind (nothing
\* in the service reads a file that extract_frames did not list), and no run
\* can leave a file once the request's folder is gone.
ServerRun(dir, id, run) ==
    run.kind = "exit" =>
        /\ run.exists => run.returncode = 0
        /\ run.exists => id \in DOMAIN dir

\* Lines 82-95: one iteration of the loop over the scenes.
ProcessScene(r) ==
    /\ pc[r] = "scenes"
    /\ Len(extracted[r]) < Len(scenes[r])
    /\ LET idx   == Len(extracted[r]) + 1
           scene == scenes[r][idx]
           plan  == PlanTimestamps(scene.start, scene.end, FramesPerScene)
       IN
       \E runs \in [1..Len(plan) -> FfmpegRun] :
        LET ret == extract_frames(scene.start, scene.end, FramesPerScene, idx, runs)
        IN  /\ \A i \in 1..Len(plan) : ServerRun(fs, req_id[r], runs[i])
            /\ fs' = WriteFiles(fs, req_id[r], FilesWritten(idx, runs, ret.ran), clock)
            /\ extracted' = [extracted EXCEPT ![r] = Append(@, ret.frames)]
            /\ result' = [result EXCEPT ![r] =
                            KeepScene(@, idx, scene, req_id[r], ret.frames)]
    /\ UNCHANGED <<names, clock, issued, pc, req_id, todo, cutoff, video, scenes,
                   response, delResp, efArgs, efRet, hDone>>

\* Lines 97-105: the response once every scene has been processed.
FinalResponse(id, res) ==
    IF res = << >>
    THEN ErrorResponse("Failed to extract frames from any scenes", 500)
    ELSE SuccessResponse(id, res)

Respond(r) ==
    /\ pc[r] = "scenes"
    /\ Len(extracted[r]) = Len(scenes[r])
    /\ Finish(r, FinalResponse(req_id[r], result[r]))
    /\ UNCHANGED <<names, clock, fs, issued, req_id, todo, cutoff, video, scenes,
                   extracted, result, delResp, efArgs, efRet, hDone>>

\* ----------------------------------------------------------- cleanup_request

\* The identifiers a client may send to DELETE /cleanup/<req_id>.
DeleteIds == UUIDs \cup {OldUuid, "not-a-uuid"}

\* Variant of CleanupResponse that answers a missing folder with an error body.
CleanupResponseError(dir, id) ==
    IF ~IsUUID(id)
    THEN ErrorResponse("Invalid request ID", 400)
    ELSE IF id \in DOMAIN dir
    THEN MessageResponse("Cleanup successful", 200)
    ELSE ErrorResponse("Request not found", 404)

\* Lines 157-166: the response of DELETE /cleanup/<req_id>.
CleanupResponse(dir, id) ==
    IF ~IsUUID(id)
    THEN ErrorResponse("Invalid request ID", 400)
    ELSE IF id \in DOMAIN dir
    THEN MessageResponse("Cleanup successful", 200)
    ELSE MessageResponse("Request not found", 404)

\* Lines 154-166: DELETE /cleanup/<req_id>.
cleanup_request(id) ==
    /\ fs' = IF IsUUID(id) /\ id \in DOMAIN fs THEN Rmtree(fs, id) ELSE fs
    /\ delResp' = CleanupResponse(fs, id)
    /\ UNCHANGED <<names, clock, issued, pc, req_id, todo, cutoff, video, scenes,
                   extracted, result, response, efArgs, efRet, hDone>>

CleanupRequest == \E id \in DeleteIds : cleanup_request(id)

\* ---------------------------------------------------------------------- time

\* Time passes: one max age at a time.
Tick ==
    /\ clock < MaxTicks * MaxAgeSeconds
    /\ clock' = clock + MaxAgeSeconds
    /\ UNCHANGED <<names, fs, issued, pc, req_id, todo, cutoff, video, scenes,
                   extracted, result, response, delResp, efArgs, efRet, hDone>>

\* -------------------------------------------------------------- specification

InitServer ==
    /\ clock = 0
    /\ fs = LeftOver
    /\ issued = {}
    /\ pc = [r \in Reqs |-> "idle"]
    /\ req_id = [r \in Reqs |-> "None"]
    /\ todo = [r \in Reqs |-> << >>]
    /\ cutoff = [r \in Reqs |-> 0]
    /\ video = [r \in Reqs |-> NoVideo]
    /\ scenes = [r \in Reqs |-> << >>]
    /\ extracted = [r \in Reqs |-> << >>]
    /\ result = [r \in Reqs |-> << >>]
    /\ response = [r \in Reqs |-> NoResponse]
    /\ delResp = NoResponse

\* No extract_frames call of the harness.
NoCall == [start_ms |-> 0, end_ms |-> 0, start |-> get_timecode(0),
           end |-> get_timecode(0), num_frames |-> 0, scene_id |-> 0,
           runs |-> << >>]

NotReturned == [returned |-> FALSE, timestamps |-> << >>, ran |-> 0,
                frames |-> << >>]

\* No file named by the naming harness.
NoNames == [upload |-> "", a |-> <<0, 0>>, b |-> <<0, 0>>, named |-> FALSE,
            saved |-> "None", frame_a |-> "", frame_b |-> ""]

Init ==
    /\ InitServer
    /\ efArgs = NoCall
    /\ efRet = NotReturned
    /\ hDone = << >>
    /\ names = NoNames

Next ==
    \/ \E r \in Reqs : AnalyzeReject(r)
    \/ \E r \in Reqs : AnalyzeStart(r)
    \/ \E r \in Reqs : SweepBegin(r)
    \/ \E r \in Reqs : SweepItem(r)
    \/ \E r \in Reqs : SweepAge(r)
    \/ \E r \in Reqs : SweepRemove(r)
    \/ \E r \in Reqs : Detect(r)
    \/ \E r \in Reqs : ProcessScene(r)
    \/ \E r \in Reqs : Respond(r)
    \/ CleanupRequest
    \/ Tick

Spec == Init /\ [][Next]_vars

\* ------------------------------------------------- extract_frames on its own

\* Scene starts and durations (ms) the harness draws its spans from: starts
\* before and across the minute and hour fields of a timecode, durations on
\* both sides of the 0.1 s and num_frames * 0.5 s thresholds.
EfStarts == {0, 150, 300, 59950, 3599900}

EfDurations == {0, 50, 100, 101, 400, 499, 500, 999, 1000, 1001, 1499, 1500,
                1999, 2000, 2001, 2499, 10000, 120000}

EfSceneIds == {1, 12}

\* The calls extract_frames(video_path, start, end, num_frames, output_dir,
\* scene_id) with the outcome of each ffmpeg run it may issue.
EfCalls ==
    UNION { [start_ms   : {s},
             end_ms     : {s + d},
             start      : {get_timecode(s)},
             end        : {get_timecode(s + d)},
             num_frames : {n},
             scene_id   : EfSceneIds,
             runs       : [1..n -> FfmpegRun]] :
            s \in EfStarts, d \in EfDurations, n \in 1..MaxNumFrames }

InitFrames ==
    /\ InitServer
    /\ efArgs \in EfCalls
    /\ efRet = NotReturned
    /\ hDone = << >>
    /\ names = NoNames

\* The call runs to its return.
EfCall ==
    /\ ~efRet.returned
    /\ LET ret == extract_frames(efArgs.start, efArgs.end, efArgs.num_frames,
                                 efArgs.scene_id, efArgs.runs)
       IN  efRet' = [returned   |-> TRUE,
                     timestamps |-> ret.timestamps,
                     ran        |-> ret.ran,
                     frames     |-> ret.frames]
    /\ UNCHANGED <<names, efArgs, clock, fs, issued, pc, req_id, todo, cutoff, video,
                   scenes, extracted, result, response, delResp, hDone>>

NextFrames == EfCall

SpecFrames == InitFrames /\ [][NextFrames]_vars

\* -------------------------------------------- cleanup_old_files on its own

\* Change times of the entries the sweep harness starts from, in seconds.
HTimes == {0, MaxAgeSeconds}

\* The base directories the harness starts from: the left-over entries, and
\* any of the workspaces present with any of the change times.
HDirs ==
    { [n \in DOMAIN LeftOver \cup present |->
          IF n \in DOMAIN LeftOver
          THEN LeftOver[n]
          ELSE [isdir |-> TRUE, ctime |-> age[n], files |-> {"video.mp4"},
                deletable |-> TRUE]] :
      present \in SUBSET UUIDs, age \in [UUIDs -> HTimes] }

\* The caller A is about to call cleanup_old_files(UPLOAD_DIR, max_age_hours=1).
InitSweep ==
    /\ clock \in {MaxAgeSeconds}
    /\ fs \in HDirs
    /\ issued = {n \in UUIDs : n \in DOMAIN fs}
    /\ pc = [r \in Reqs |-> IF r = "A" THEN "cleanup" ELSE "idle"]
    /\ req_id = [r \in Reqs |-> "None"]
    /\ todo = [r \in Reqs |-> << >>]
    /\ cutoff = [r \in Reqs |-> 0]
    /\ video = [r \in Reqs |-> NoVideo]
    /\ scenes = [r \in Reqs |-> << >>]
    /\ extracted = [r \in Reqs |-> << >>]
    /\ result = [r \in Reqs |-> << >>]
    /\ response = [r \in Reqs |-> NoResponse]
    /\ delResp = NoResponse
    /\ efArgs = NoCall
    /\ efRet = NotReturned
    /\ hDone = << >>
    /\ names = NoNames

\* The call has returned, and the caller calls cleanup_old_files once more.
SweepAgain ==
    /\ pc["A"] = "sweeping"
    /\ todo["A"] = << >>
    /\ hDone = << >>
    /\ hDone' = <<cutoff["A"]>>
    /\ pc' = [pc EXCEPT !["A"] = "cleanup"]
    /\ UNCHANGED <<names, clock, fs, issued, req_id, todo, cutoff, video, scenes,
                   extracted, result, response, delResp, efArgs, efRet>>

NextSweep ==
    \/ SweepBegin("A")
    \/ SweepItem("A")
    \/ SweepAge("A")
    \/ SweepRemove("A")
    \/ SweepAgain
    \/ Tick

SpecSweep == InitSweep /\ [][NextSweep]_vars

\* ------------------------------------------- the files of one request folder

\* Scene ids and frame indexes the naming harness uses: one and two digits,
\* and past the two-digit padding.
NameIds == {1, 2, 10, 11, 99, 100, 101, 110, 1001}

\* video.filename of the uploads the naming harness uses.
UploadNames ==
    {"", "clip.mp4", "My Clip.MOV", "scene_01_01.jpg", "scene_01_01.jpg.mp4",
     "../scene_01_01.jpg", "scene_01_01.jpg._", "scene_01_01.jpg .webm",
     "scene_01_01.jpg/.mkv", ".avi"}

InitNames ==
    /\ InitServer
    /\ efArgs = NoCall
    /\ efRet = NotReturned
    /\ hDone = << >>
    /\ names \in [upload  : UploadNames,
                   a       : NameIds \X NameIds,
                   b       : NameIds \X NameIds,
                   named   : {FALSE},
                   saved   : {"None"},
                   frame_a : {""},
                   frame_b : {""}]

\* The request saves the upload (app.py line 64) and extract_frames names the
\* output files of two of its ffmpeg runs (utilis.py line 99).
NameFiles ==
    /\ ~names.named
    /\ names' = [names EXCEPT
                    !.named   = TRUE,
                    !.saved   = SavedName(names.upload),
                    !.frame_a = FrameName(names.a[1], names.a[2]),
                    !.frame_b = FrameName(names.b[1], names.b[2])]
    /\ UNCHANGED <<clock, fs, issued, pc, req_id, todo, cutoff, video, scenes,
                   extracted, result, response, delResp, efArgs, efRet, hDone>>

NextNames == NameFiles

SpecNames == InitNames /\ [][NextNames]_vars

\* ------------------------------------------------ properties: extract_frames

\* A run that counts as an extracted frame: exit code zero and the file exists.
RunSucceeded(run) ==
    run.kind = "exit" /\ run.returncode = 0 /\ run.exists

EfDuration == efArgs.end_ms - efArgs.start_ms

\* The frame count the sampling policy prescribes for a span of d ms and n
\* requested frames: 0 up to 0.1 s, max(1, floor(2 d)) below n * 0.5 s, else n.
PolicyCount(d, n) ==
    IF d <= 100 THEN 0
    ELSE IF 2 * d < n * 1000
    THEN (IF (2 * d) \div 1000 >= 1 THEN (2 * d) \div 1000 ELSE 1)
    ELSE n

\* C2: a timeout or a non-zero exit of one ffmpeg run is not fatal to the scene:
\* every planned timestamp whose run succeeded, before or after a failing one,
\* is in the list extract_frames returns.
C2_FailureNotFatal ==
    efRet.returned =>
        \A i \in 1..Len(efRet.timestamps) :
            RunSucceeded(efArgs.runs[i]) =>
                \E k \in 1..Len(efRet.frames) :
                    efRet.frames[k] = FrameName(efArgs.scene_id, i)

\* C4: for every scene span and N, extract_frames plans 0 frames when
\* duration <= 0.1 s, max(1, floor(duration * 2)) when 0.1 s < duration <
\* N * 0.5 s, and N otherwise; 10 s with N = 3 gives 3, 1 s with N = 3 gives 2,
\* 0.05 s gives 0.
C4_PlannedCount ==
    efRet.returned =>
        /\ Len(efRet.timestamps) = PolicyCount(EfDuration, efArgs.num_frames)
        /\ (EfDuration = 10000 /\ efArgs.num_frames = 3) => Len(efRet.timestamps) = 3
        /\ (EfDuration = 1000 /\ efArgs.num_frames = 3) => Len(efRet.timestamps) = 2
        /\ EfDuration = 50 => Len(efRet.timestamps) = 0

\* C5: for a span longer than 0.1 s and N >= 1 the planned timestamps number
\* frame_count, the i-th is start + i * duration / (frame_count + 1), each lies
\* strictly between start and end, and they increase strictly.
C5_PlannedTimestamps ==
    (efRet.returned /\ EfDuration > 100 /\ efArgs.num_frames >= 1) =>
        LET ts == efRet.timestamps
            k  == Len(ts)
        IN  /\ k >= 1
            /\ k <= efArgs.num_frames
            /\ \A i \in 1..Len(ts) :
                /\ ts[i].den > 0
                /\ ts[i].num * (k + 1) =
                       (efArgs.start_ms * (k + 1) + i * EfDuration) * ts[i].den
                /\ efArgs.start_ms * ts[i].den < ts[i].num
                /\ ts[i].num < efArgs.end_ms * ts[i].den
            /\ \A i \in 1..(Len(ts) - 1) :
                ts[i].num * ts[i + 1].den < ts[i + 1].num * ts[i].den

\* A plan of four timestamps in a span that starts inside the hour field.
C5_Witness ==
    /\ efRet.returned
    /\ efArgs.start_ms = 3599900
    /\ EfDuration = 10000
    /\ efArgs.num_frames = 4
    /\ Len(efRet.timestamps) = 4
    /\ efRet.timestamps[1] = [num |-> 3599900 * 5 + 10000, den |-> 5]

\* The planned positions for which ffmpeg was run, returned 0 and left its
\* file, ascending.
SucceededPositions ==
    SelectSeq([i \in 1..efRet.ran |-> i],
              LAMBDA i : RunSucceeded(efArgs.runs[i]))

\* C13: the list extract_frames returns is exactly the names
\* scene_<scene_id>_<i>.jpg of the planned positions i whose run returned exit
\* code zero and whose output file existed afterwards, in ascending i; i is the
\* position in the plan, not renumbered after a skipped timestamp.
C13_FramesExactlySucceeded ==
    efRet.returned =>
        /\ Len(efRet.frames) = Len(SucceededPositions)
        /\ \A k \in 1..Len(SucceededPositions) :
            efRet.frames[k] = FrameName(efArgs.scene_id, SucceededPositions[k])

\* C11: within one request the frame file names are collision-free: (scene_id,
\* index) -> scene_<scene_id>_<index>.jpg, each number in at least two digits,
\* is injective for all positive ids and indexes, also above 99, and no frame
\* file name equals the name of the uploaded video saved in the same folder.
C11_NamesCollisionFree ==
    names.named =>
        /\ (names.frame_a = names.frame_b) => (names.a = names.b)
        /\ names.saved # "None" =>
              /\ names.saved # names.frame_a
              /\ names.saved # names.frame_b

\* Two frames past the two-digit padding whose digits run together the same
\* way, next to an upload that was saved under a name holding a frame's name.
C11_Witness ==
    /\ names.named
    /\ names.a = <<1001, 10>>
    /\ names.b = <<100, 110>>
    /\ names.frame_a = "scene_1001_10.jpg"
    /\ names.frame_b = "scene_100_110.jpg"
    /\ names.upload = "scene_01_01.jpg .webm"
    /\ names.saved = "scene_01_01.jpg_.webm"

\* ---------------------------------------------------- properties: the service

\* The request has just been answered with the success response.
AnsweredOk(r) ==
    pc[r] # "done" /\ pc'[r] = "done" /\ response'[r].status = 200

\* C1: no phantom references: when a success response is produced, every frame
\* listed in every returned scene is a file inside the request's folder, under
\* every interleaving with other requests, their sweeps and DELETE /cleanup.
C1_NoPhantomFrames ==
    [][\A r \in Reqs :
          AnsweredOk(r) =>
              \A k \in 1..Len(response'[r].scenes) :
                  \A j \in 1..Len(response'[r].scenes[k].frames) :
                      LET frame == response'[r].scenes[k].frames[j]
                      IN  /\ frame[1] = req_id[r]
                          /\ frame[1] \in DOMAIN fs'
                          /\ frame[2] \in fs'[frame[1]].files]_vars

\* The request went through the loop over its scenes and was answered.
Processed(r) ==
    /\ pc[r] = "done"
    /\ scenes[r] # << >>
    /\ Len(extracted[r]) = Len(scenes[r])

\* The positions of the scenes for which extract_frames returned a frame.
NonEmptyScenes(r) ==
    SelectSeq([i \in 1..Len(extracted[r]) |-> i],
              LAMBDA i : extracted[r][i] # << >>)

\* C3: the response holds exactly the scenes whose extraction returned at least
\* one frame, in detection order, and the request fails, with the no-frames
\* error, if and only if every scene ended with zero frames.
C3_ExactlyNonEmptyScenes ==
    \A r \in Reqs :
        Processed(r) =>
            LET kept == NonEmptyScenes(r)
                resp == response[r]
            IN  /\ Len(resp.scenes) = Len(kept)
                /\ \A k \in 1..Len(kept) :
                    /\ resp.scenes[k].scene_id = kept[k]
                    /\ resp.scenes[k].start = scenes[r][kept[k]].start
                    /\ resp.scenes[k].end = scenes[r][kept[k]].end
                    /\ Len(resp.scenes[k].frames) = Len(extracted[r][kept[k]])
                    /\ \A j \in 1..Len(resp.scenes[k].frames) :
                        resp.scenes[k].frames[j][2] = extracted[r][kept[k]][j]
                /\ (resp.key = "error") <=> (kept = << >>)
                /\ (resp.key = "error") =>
                    /\ resp.text = "Failed to extract frames from any scenes"
                    /\ resp.status = 500
                /\ (resp.key # "error") => resp.status = 200

\* A response that dropped one scene and kept two, in detection order.
C3_Witness ==
    \E r \in Reqs :
        /\ Processed(r)
        /\ Len(scenes[r]) = 3
        /\ response[r].status = 200
        /\ Len(response[r].scenes) = 2
        /\ response[r].scenes[1].scene_id = 2
        /\ response[r].scenes[2].scene_id = 3

\* A sweep's cutoff is at least one max age (3600 s) before the current time.
CutoffIsMaxAgeBack ==
    \A r \in Reqs : pc[r] \in SweepPcs => cutoff[r] <= clock - 3600

C12_SweepToleratesRaces ==
    [][\A r \in Reqs :
          pc[r] \in SweepPcs =>
              /\ pc'[r] \notin SweepPcs => (todo[r] = << >> /\ Detect(r))
              /\ pc'[r] \in SweepPcs => response'[r] = response[r]
              /\ (pc'[r] \in SweepPcs /\ todo[r] = << >>) => todo'[r] = << >>
              /\ todo[r] # << >> =>
                  LET item == Head(todo[r]) IN
                  /\ pc'[r] \in SweepPcs
                  /\ todo'[r] \in {todo[r], Tail(todo[r])}
                  /\ (SweepAge(r) /\ item \notin DOMAIN fs) =>
                        /\ todo'[r] = Tail(todo[r])
                        /\ pc'[r] = "sweeping"
                  /\ (SweepAge(r) /\ item \in DOMAIN fs
                        /\ fs[item].ctime < cutoff[r]) =>
                        pc'[r] = "sweep_rmtree"
                  /\ SweepRemove(r) =>
                        /\ todo'[r] = Tail(todo[r])
                        /\ pc'[r] = "sweeping"
                        /\ (item \in DOMAIN fs /\ fs[item].deletable) =>
                              item \notin DOMAIN fs'
                        /\ (item \notin DOMAIN fs \/ ~fs[item].deletable) =>
                              fs' = fs]_vars

\* A sweep that went past the old workspace it could not delete, is about to
\* delete a workspace that has disappeared since its age check, and has another
\* listed entry left to examine.
C12_Witness ==
    \E r \in Reqs :
        /\ pc[r] = "sweep_rmtree"
        /\ cutoff[r] = 3600
        /\ OldUuid \in DOMAIN fs
        /\ todo[r] = <<"uuid-1", "uuid-2">>
        /\ "uuid-1" \notin DOMAIN fs
        /\ "uuid-2" \in DOMAIN fs

\* The number a string of decimal digits stands for.
RECURSIVE NatOf(_)
NatOf(str) ==
    IF Len(str) = 0 THEN 0
    ELSE NatOf(SubSeq(str, 1, Len(str) - 1)) * 10
         + (CHOOSE d \in 0..9 :
                SubSeq(Digits, d + 1, d + 1) = SubSeq(str, Len(str), Len(str)))

\* The scene id a frame file name encodes: the digits between "scene_" and the
\* next underscore.
SceneIdIn(name) ==
    LET rest == SubSeq(name, 7, Len(name))
        k    == CHOOSE j \in 1..Len(rest) :
                    /\ SubSeq(rest, j, j) = "_"
                    /\ \A i \in 1..(j - 1) : SubSeq(rest, i, i) # "_"
    IN  NatOf(SubSeq(rest, 1, k - 1))

\* The spans of the list run_pyscenedetect works on: the detector's, or the
\* whole video when it found none.
DetectedSpans(v) ==
    IF v.scene_list = << >>
    THEN {<<0, v.duration>>}
    ELSE {v.scene_list[i] : i \in 1..Len(v.scene_list)}

\* C14: scene identifiers are 1-based and stable: the scenes are sorted
\* ascending by start time before they are numbered, scene i of the response is
\* the i-th span in that order, a dropped scene leaves a gap instead of
\* renumbering the later ones, and the scene_id of a returned record is the
\* scene id encoded in each of its frame file names.
C14_SceneIdsStable ==
    \A r \in Reqs :
        (pc[r] \in {"scenes", "done"} /\ scenes[r] # << >>) =>
            /\ \A i \in 1..Len(scenes[r]), j \in 1..Len(scenes[r]) :
                i < j => time_to_seconds(scenes[r][i].start)
                            <= time_to_seconds(scenes[r][j].start)
            /\ {<<time_to_seconds(scenes[r][i].start),
                  time_to_seconds(scenes[r][i].end)>> : i \in 1..Len(scenes[r])}
                   = DetectedSpans(video[r])
            /\ \A k \in 1..Len(result[r]) :
                LET rec == result[r][k] IN
                /\ rec.scene_id \in 1..Len(scenes[r])
                /\ rec.start = scenes[r][rec.scene_id].start
                /\ rec.end = scenes[r][rec.scene_id].end
                /\ extracted[r][rec.scene_id] # << >>
                /\ k > 1 => result[r][k - 1].scene_id < rec.scene_id
                /\ \A j \in 1..Len(rec.frames) :
                    SceneIdIn(rec.frames[j][2]) = rec.scene_id
            /\ response[r].status = 200 => response[r].scenes = result[r]

\* A response for the video whose detector list came unsorted: the first scene
\* in start order was dropped, and the two returned keep the ids 2 and 3.
C14_Witness ==
    \E r \in Reqs :
        /\ pc[r] = "done"
        /\ response[r].status = 200
        /\ video[r].scene_list = << <<600, 1000>>, <<0, 50>>, <<50, 600>> >>
        /\ Len(response[r].scenes) = 2
        /\ response[r].scenes[1].scene_id = 2
        /\ time_to_seconds(response[r].scenes[1].start) = 50
        /\ response[r].scenes[1].frames[1][2] = "scene_02_01.jpg"
        /\ response[r].scenes[2].scene_id = 3
        /\ time_to_seconds(response[r].scenes[2].start) = 600

\* The request has a workspace and has not been answered yet.
InFlight(q) == req_id[q] # "None" /\ pc[q] # "done"

\* C16: eviction is safe for in-flight requests: a sweep triggered by an analyze
\* request never deletes the workspace of a request that is allocated and not
\* yet answered, the sweeping request's own included, however long the
\* processing takes.
C16_EvictionSparesInFlight ==
    [][\A r \in Reqs, q \in Reqs :
          (SweepRemove(r) /\ InFlight(q) /\ req_id[q] \in DOMAIN fs) =>
              req_id[q] \in DOMAIN fs']_vars

\* The request has just been answered with an error after its workspace was
\* allocated.
AnsweredError(r) ==
    /\ pc[r] # "done"
    /\ pc'[r] = "done"
    /\ response'[r].key = "error"
    /\ req_id'[r] # "None"

\* C17: clean up on error: whenever an analyze request returns an error response
\* after its workspace was allocated (save failure, no scenes detected, no
\* frames extracted, internal exception), its workspace directory no longer
\* exists when the response is returned, and the error path removes no other
\* request's workspace.
C17_CleanUpOnError ==
    [][\A r \in Reqs :
          AnsweredError(r) =>
              /\ req_id'[r] \notin DOMAIN fs'
              /\ \A n \in DOMAIN fs \ {req_id'[r]} :
                    n \in DOMAIN fs' /\ fs'[n] = fs[n]]_vars

NoCuts(r) == video[r].readable /\ video[r].scene_list = << >>

\* C9: with no boundary detected and a video of zero duration, the request
\* fails with the "No scenes detected" outcome.
C9_ZeroDurationNoScenes ==
    \A r \in Reqs :
        (pc[r] = "done" /\ NoCuts(r) /\ video[r].duration = 0) =>
            response[r] = ErrorResponse("No scenes detected in video", 400)

\* C10: with no cut detected in a video of positive duration D,
\* run_pyscenedetect returns exactly one scene spanning [0, D], and a request
\* whose extraction succeeds returns exactly one scene result, with scene_id 1.
C10_FallbackWholeVideo ==
    \A r \in Reqs :
        (pc[r] \in {"scenes", "done"} /\ NoCuts(r) /\ video[r].duration > 0) =>
            /\ Len(scenes[r]) = 1
            /\ time_to_seconds(scenes[r][1].start) = 0
            /\ time_to_seconds(scenes[r][1].end) = video[r].duration
            /\ response[r].status = 200 =>
                /\ Len(response[r].scenes) = 1
                /\ response[r].scenes[1].scene_id = 1
                /\ time_to_seconds(response[r].scenes[1].end) = video[r].duration

\* A request for a video without cuts was answered with its one scene.
C10_Witness ==
    \E r \in Reqs :
        /\ pc[r] = "done"
        /\ NoCuts(r)
        /\ video[r].duration > 0
        /\ response[r].status = 200
        /\ Len(response[r].scenes) = 1

\* ------------------------------------------- properties: cleanup_old_files

====
